---- MODULE Spec2Model ----
(***************************************************************************)
(* The Dynamo connector hook (useDynamoConnector) of                       *)
(* src/src/components/DropZone.tsx: port discovery, the connection state,  *)
(* the polling timer, the service facade with its error feedback, and the  *)
(* promise queue in front of it.                                           *)
(*                                                                         *)
(* A state of the model is the state of the hook between two event-loop    *)
(* tasks: every action is one handler run to completion, followed by the   *)
(* re-render it schedules (useMemo / useEffect are re-evaluated there).    *)
(***************************************************************************)
EXTENDS Integers, Sequences, FiniteSets

\* ---------------------------------------------------------------- bounds
\* Candidate ports probed by one round (the source probes 10, line 126).
NumPorts == 2
\* Discovery rounds that may be pending at the same time.
MaxRounds == 2
\* Tasks that may be held by the promise queues at the same time.
MaxTasks == 2

\* ------------------------------------------------------------- constants
defaultPort == 55100

\* The value of dynamoPort while no port is set (JavaScript's undefined):
\* a value outside portsToCheck.
Undefined == defaultPort - 1

portsToCheck == { defaultPort + i : i \in 0..(NumPorts - 1) }

\* enum DynamoConnectionState
INIT == "INIT"
CONNECTED == "CONNECTED"
MULTIPLE_CONNECTIONS == "MULTIPLE_CONNECTIONS"
NOT_CONNECTED == "NOT_CONNECTED"
BLOCKED == "BLOCKED"
LOST_CONNECTION == "LOST_CONNECTION"

DynamoConnectionState ==
  {INIT, CONNECTED, MULTIPLE_CONNECTIONS, NOT_CONNECTED, BLOCKED, LOST_CONNECTION}

\* ------------------------------------------------------------------ state
VARIABLES
  connectionState,  \* state.connectionState
  dynamoPort,       \* dynamoPort (Undefined or a port)
  rounds,           \* the number of portDiscovery() calls awaiting their probes
  superseded,       \* how many of them, the oldest ones, started before a
                    \* call that has already completed
  queues,           \* the promise queues that exist, oldest first; the last
                    \* one is the queue of the current queuedDynamoLocalService
  event             \* what the handler that ran last did and returned

vars == <<connectionState, dynamoPort, rounds, superseded, queues, event>>

\* --------------------------------------------------------------- Probe
\* The outcome of one Dynamo.health(port) call: it fulfils with a response
\* naming the port, or rejects with a FetchError whose status is 503, or
\* rejects for any other reason (refused, timed out, another status).
Live == "Live"
Rejected503 == "Rejected503"
Unreachable == "Unreachable"
ProbeResult == {Live, Rejected503, Unreachable}

\* The outcomes of the probes of one round, one per candidate port.
RoundOutcomes == [portsToCheck -> ProbeResult]

LivePorts(out) == { p \in portsToCheck : out[p] = Live }

\* Promise.any(...) fulfils as soon as one probe fulfils, and rejects with an
\* AggregateError of all the probes' errors once every probe has rejected.
AnyFulfils(out) == LivePorts(out) # {}

\* e.errors.find((e) => e.status === 503)
Finds503(out) == \E p \in portsToCheck : out[p] = Rejected503

\* ------------------------------------------------------- portDiscovery
\* Faulty variant of DiscoveryState: the catch path without the 503 test.
DiscoveryState_No503(out) ==
  IF AnyFulfils(out) THEN CONNECTED ELSE NOT_CONNECTED

\* Faulty variant of DiscoveryState: the catch path always sets BLOCKED.
DiscoveryState_BlockedOnAnyFailure(out) ==
  IF AnyFulfils(out) THEN CONNECTED ELSE BLOCKED

\* The connection state portDiscovery() sets once Promise.any has settled.
DiscoveryState(out) ==
  IF AnyFulfils(out) THEN CONNECTED
  ELSE IF Finds503(out) THEN BLOCKED
  ELSE NOT_CONNECTED

\* Faulty variant of DiscoveryPort: the first candidate port is set instead
\* of the port of the response.
DiscoveryPort_LowestCandidate(out, first, port) ==
  IF AnyFulfils(out) THEN defaultPort ELSE port

\* The port portDiscovery() leaves in dynamoPort once Promise.any has
\* settled: response.port of the probe that fulfilled first, and on the
\* catch path the port as it is (the catch path sets no port).
DiscoveryPort(out, first, port) ==
  IF AnyFulfils(out) THEN first ELSE port

\* Faulty variant of PollingStates: LOST_CONNECTION is not polled.
PollingStates_NoLostConnection == {NOT_CONNECTED, MULTIPLE_CONNECTIONS, BLOCKED}

\* The states in which the polling effect keeps an interval running.
PollingStates ==
  {NOT_CONNECTED, MULTIPLE_CONNECTIONS, BLOCKED, LOST_CONNECTION}

\* Faulty variant of TimerArmed: the interval is set only after a failed
\* operation, and not after a round that found nothing.
TimerArmed_OnlyLostConnection == connectionState = LOST_CONNECTION

TimerArmed == connectionState \in PollingStates

\* ------------------------------------------------------ service + queue
\* The operations of queuedDynamoLocalService.
Ops == {"folder", "current", "info", "run", "trust", "serverInfo", "health"}

\* The operation of dynamoLocalService a queued operation calls: current is
\* queued as dynamoLocalService.info({ type: "CurrentGraphTarget" }).
Delegate(op) == IF op = "current" THEN "info" ELSE op

\* What a request settles with: "ok", or an error with a status (0 when no
\* response arrived: connection refused, timed out) and a message.
Ok == [status |-> 200, message |-> "ok"]
Refused == [status |-> 0, message |-> "Failed to fetch"]
ServerError == [status |-> 500, message |-> "Internal Server Error"]
NotTrusted == [status |-> 500, message |-> "Graph is not trusted."]
NotFound == [status |-> 404, message |-> "Not Found"]
Errors == {Refused, ServerError, NotTrusted, NotFound}
Responses == {Ok} \cup Errors

\* Faulty variant of SetsLostConnection: info exempts no error.
SetsLostConnection_NoExemption(op, e) ==
  op \in {"folder", "info", "run", "trust"}

\* Faulty variant of SetsLostConnection: 4xx errors are exempted too.
SetsLostConnection_ServerErrorsOnly(op, e) ==
  /\ op \in {"folder", "info", "run", "trust"}
  /\ e.status \notin 400..499
  /\ ~(op = "info" /\ e.status = 500 /\ e.message = "Graph is not trusted.")

\* Whether the catch handler of dynamoLocalService[op] sets the connection
\* state to LOST_CONNECTION for the error e: folder, run and trust on any
\* error, info on any error but the "Graph is not trusted." one, and
\* current, serverInfo and health never (they have no catch handler).
SetsLostConnection(op, e) ==
  CASE op \in {"folder", "run", "trust"} -> TRUE
    [] op = "info" -> ~(e.status = 500 /\ e.message = "Graph is not trusted.")
    [] OTHER -> FALSE

\* The responses the request of operation op can end with when the service
\* is bound to port: a service built while no port was set requests
\* http://localhost:undefined, which no server answers; health(port) alone
\* takes its port from its argument and not from the service's url.
PossibleResponses(op, port) ==
  IF port = Undefined /\ op # "health" THEN {Refused} ELSE Responses

\* How the promise enqueue returned settles for the caller: every catch
\* handler ends in `throw e`, and an operation without a handler rejects by
\* itself, so an error always reaches the caller.
Outcome(op, r) == IF r \in Errors THEN "rejected" ELSE "fulfilled"

\* A promise queue: the dynamoLocalService it was created for is bound to
\* the port of the render that created it; size counts the thunks enqueued
\* on it that have not settled. A queue runs its thunks one at a time in the
\* order enqueued, so a queue that holds thunks has exactly one in flight.
NewQueue(port) == [port |-> port, size |-> 0]

CurrentQueue == queues[Len(queues)]

NumTasks(qs) ==
  LET RECURSIVE Sum(_)
      Sum(i) == IF i = 0 THEN 0 ELSE qs[i].size + Sum(i - 1)
  IN Sum(Len(qs))

\* The queues that have a thunk in flight.
InFlight == { q \in 1..Len(queues) : queues[q].size > 0 }

\* useMemo of dynamoLocalService and of queuedDynamoLocalService: a render
\* in which dynamoPort differs from the last render's makes a new service
\* and with it a new, empty queue. The queues made earlier live on for as
\* long as they hold thunks.
Render(qs, oldPort, newPort) ==
  IF newPort = oldPort THEN qs
  ELSE IF qs[Len(qs)].size = 0
       THEN [qs EXCEPT ![Len(qs)] = NewQueue(newPort)]
       ELSE Append(qs, NewQueue(newPort))

\* The queues after n thunks have left queue q. A queue that is no longer
\* the current one and holds no thunk is unreachable.
Dequeue(qs, q, n) ==
  LET rest == [qs EXCEPT ![q].size = @ - n]
  IN IF q < Len(qs) /\ rest[q].size = 0
     THEN SubSeq(rest, 1, q - 1) \o SubSeq(rest, q + 1, Len(rest))
     ELSE rest

\* Faulty variant of AfterSettle: a rejection rejects the chain, and the
\* thunks waiting behind the rejected one never run.
AfterSettle_Poisoned(qs, q, r) ==
  Dequeue(qs, q, IF r \in Errors THEN qs[q].size ELSE 1)

\* The queues after the thunk in flight on queue q has settled with r: the
\* thunk leaves the queue, whether it fulfilled or rejected, and the thunk
\* behind it (if any) is the one in flight.
AfterSettle(qs, q, r) == Dequeue(qs, q, 1)

\* ------------------------------------------------------------------ Init
\* The hook after its first render and the effects of that render: the
\* state is INIT, no port is set, and the INIT effect has called
\* portDiscovery(), whose probes are pending. The polling effect set no
\* interval, INIT not being a polling state.
Init ==
  /\ connectionState = INIT
  /\ dynamoPort = Undefined
  /\ rounds = 1
  /\ superseded = 0
  /\ queues = << NewQueue(Undefined) >>
  /\ event = [type |-> "none"]

\* --------------------------------------------------------------- actions
\* Handlers run to completion, one at a time: a callback (a timer firing, a
\* settled promise's continuation, a call from the component) starts only
\* when no other handler is running. event holds the handler that is
\* running, at the point where it has done its work and the hook has
\* rendered again.
Idle == event.type = "none"

\* Faulty variant of StartDiscovery: the port is not cleared.
StartDiscovery_KeepsPort(trigger) ==
  /\ Idle
  /\ rounds < MaxRounds
  /\ rounds' = rounds + 1
  /\ event' = [type |-> "start", trigger |-> trigger]
  /\ UNCHANGED <<connectionState, dynamoPort, queues, superseded>>

\* portDiscovery() up to its await: setDynamoPort(undefined), then the
\* probes are sent. The connection state is not touched.
StartDiscovery(trigger) ==
  /\ Idle
  /\ rounds < MaxRounds
  /\ dynamoPort' = Undefined
  /\ queues' = Render(queues, dynamoPort, Undefined)
  /\ rounds' = rounds + 1
  /\ event' = [type |-> "start", trigger |-> trigger]
  /\ UNCHANGED <<connectionState, superseded>>

\* Faulty variant of TimerFires: the interval runs in every state.
TimerFires_InEveryState == StartDiscovery("timer")

\* The interval of the polling effect fires: it exists only while the
\* connection state is a polling state.
TimerFires ==
  /\ TimerArmed
  /\ StartDiscovery("timer")

\* Faulty variant of Reconnect: ignored while the state is not polled.
Reconnect_OnlyWhilePolling == TimerArmed /\ StartDiscovery("reconnect")

\* A caller calls reconnect(), which is portDiscovery.
Reconnect == StartDiscovery("reconnect")

\* The probes that can have settled when Promise.any settles: on a
\* fulfilment the probe that fulfilled first and any of the probes that
\* reject, on a rejection all of them.
SettledSets(out, first) ==
  IF AnyFulfils(out)
  THEN { {first} \cup S : S \in SUBSET (portsToCheck \ LivePorts(out)) }
  ELSE { portsToCheck }

\* Faulty variant of DiscoveryRaises: no catch around Promise.any.
DiscoveryRaises_Uncaught(out) == ~AnyFulfils(out)

\* Whether portDiscovery() rejects to its caller: the await is inside a
\* try whose catch takes every error and throws none.
DiscoveryRaises(out) == FALSE

\* portDiscovery() from its await on: Promise.any over the probes of the
\* k-th oldest pending round has settled. out are the outcomes of the
\* round's probes, first the port of the probe that fulfilled first (if any
\* did), settled the probes that have settled by now. The continuation has
\* no test of whether a round started later has completed already.
CompleteDiscovery(k, out, first, settled) ==
  /\ Idle
  /\ k \in 1..rounds
  /\ first \in (IF AnyFulfils(out) THEN LivePorts(out) ELSE {Undefined})
  /\ settled \in SettledSets(out, first)
  /\ connectionState' = DiscoveryState(out)
  /\ dynamoPort' = DiscoveryPort(out, first, dynamoPort)
  /\ queues' = Render(queues, dynamoPort, dynamoPort')
  /\ rounds' = rounds - 1
  /\ superseded' = IF k <= superseded THEN superseded - 1 ELSE k - 1
  /\ event' = [type |-> "round", out |-> out, settled |-> settled,
               stale |-> k <= superseded, raised |-> DiscoveryRaises(out)]

\* A caller calls an operation of the current queuedDynamoLocalService:
\* queue.enqueue(thunk) on its queue. The thunk starts at once when the
\* queue is empty, and else when the thunks before it have settled.
Submit ==
  /\ Idle
  /\ NumTasks(queues) < MaxTasks
  /\ queues' = [queues EXCEPT ![Len(queues)].size = @ + 1]
  /\ event' = [type |-> "submit"]
  /\ UNCHANGED <<connectionState, dynamoPort, rounds, superseded>>

\* The thunk in flight on queue q, which was enqueued by the operation op of
\* queuedDynamoLocalService, settles: its request ends with response r, the
\* catch handler of the dynamoLocalService operation runs on an error, the
\* error is thrown on to the caller of enqueue, and the queue goes on to its
\* next thunk. (Which operation a thunk calls has no effect before the
\* thunk settles, so it is drawn here and not when the thunk is enqueued.)
\* The event records how many thunks waited behind the settled one, and on
\* which queue (0 when none waited).
Settle(q, op, r) ==
  /\ Idle
  /\ q \in InFlight
  /\ r \in PossibleResponses(op, queues[q].port)
  /\ LET lost == r \in Errors /\ SetsLostConnection(Delegate(op), r)
         behind == queues[q].size - 1
     IN /\ connectionState' = IF lost THEN LOST_CONNECTION ELSE connectionState
        /\ queues' = AfterSettle(queues, q, r)
        /\ event' = [type |-> "op", op |-> op, response |-> r,
                     outcome |-> Outcome(Delegate(op), r),
                     setLost |-> lost,
                     behind |-> behind,
                     q |-> IF behind > 0 THEN q ELSE 0]
  /\ UNCHANGED <<dynamoPort, rounds, superseded>>

\* The running handler returns, and the next callback can start.
HandlerReturns ==
  /\ ~Idle
  /\ event' = [type |-> "none"]
  /\ UNCHANGED <<connectionState, dynamoPort, rounds, superseded, queues>>

Next ==
  \/ TimerFires
  \/ Reconnect
  \/ Idle /\ \E k \in 1..rounds, out \in RoundOutcomes :
              \E first \in LivePorts(out) \cup {Undefined} :
                \E settled \in SettledSets(out, first) :
                  CompleteDiscovery(k, out, first, settled)
  \/ Submit
  \/ Idle /\ \E q \in InFlight, op \in Ops, r \in Responses : Settle(q, op, r)
  \/ HandlerReturns

Spec == Init /\ [][Next]_vars

TypeOK ==
  /\ connectionState \in DynamoConnectionState
  /\ dynamoPort \in portsToCheck \cup {Undefined}
  /\ rounds \in 0..MaxRounds
  /\ superseded \in 0..rounds
  /\ NumTasks(queues) <= MaxTasks
  /\ CurrentQueue.port = dynamoPort

\* -------------------------------------------------- recovery after a loss
\* The port on which Dynamo comes back after the loss, and the outcomes of
\* a round while that port is live and no other is.
RecoveredPort == defaultPort + 1

RecoveredOutcomes == { out \in RoundOutcomes : LivePorts(out) = {RecoveredPort} }

\* The hook after a loss: an operation failed while CONNECTED, the timer's
\* round found no live port and has set NOT_CONNECTED, no round is pending,
\* the operations have settled. From here on RecoveredPort is live.
LostInit ==
  /\ connectionState = NOT_CONNECTED
  /\ dynamoPort = Undefined
  /\ rounds = 0
  /\ superseded = 0
  /\ queues = << NewQueue(Undefined) >>
  /\ event = [type |-> "none"]

\* A pending round completes while RecoveredPort is the one live port.
RecoveredRoundCompletes ==
  Idle /\ \E k \in 1..rounds, out \in RecoveredOutcomes :
            \E settled \in SettledSets(out, RecoveredPort) :
              CompleteDiscovery(k, out, RecoveredPort, settled)

RecoverNext ==
  \/ TimerFires
  \/ Reconnect
  \/ RecoveredRoundCompletes
  \/ Submit
  \/ Idle /\ \E q \in InFlight, op \in Ops, r \in Responses : Settle(q, op, r)
  \/ HandlerReturns

\* The event loop runs every callback that is due: a handler that runs
\* returns, the interval's callback runs again and again while the interval
\* is set, and a round's continuation runs once its probes, each bounded by
\* its timeout, have settled. The timer and the continuation are due only
\* between handlers, hence strong fairness.
LiveSpec ==
  /\ LostInit
  /\ [][RecoverNext]_vars
  /\ WF_vars(HandlerReturns)
  /\ SF_vars(TimerFires)
  /\ SF_vars(RecoveredRoundCompletes)

\* ================================================================ claims
\* The handler that ran last completed a discovery round.
RoundCompleted == event.type = "round"

\* The handler that ran last settled a queued operation.
OpSettled == event.type = "op"

\* The round that completed last had exactly one live probe, on port p, and
\* every other probe unreachable.
OnlyLive(p) ==
  /\ RoundCompleted
  /\ event.out[p] = Live
  /\ \A o \in portsToCheck \ {p} : event.out[o] = Unreachable

NoneLive == RoundCompleted /\ \A p \in portsToCheck : event.out[p] # Live

\* Refused or timed out requests and unexpected 5xx responses.
ConnectivityFailures == {Refused, ServerError}

\* Failures the service answers with on purpose: a 4xx, and the "Graph is
\* not trusted." answer.
ApplicationFailures == {NotFound, NotTrusted}

\* The handler that ran last was the error feedback of an operation, and it
\* set the state to LOST_CONNECTION.
ErrorFeedback == OpSettled /\ event.setLost

\* C1: of two operations submitted through the queued service, the one
\* submitted first settles before the other begins executing, so at no time
\* are two operations in flight. (Queues are held oldest first and callers
\* submit to the last one: an operation in flight on a later queue began
\* before the operations on an earlier queue settled.)
C1_OneOperationInFlight ==
  \A q1, q2 \in 1..Len(queues) :
    q1 < q2 => ~(queues[q1].size > 0 /\ queues[q2].size > 0)

\* C2: a round with exactly one probe Live(p) and every other probe
\* Unreachable leaves the state CONNECTED and the port p.
C2_OneLiveConnects ==
  \A p \in portsToCheck :
    OnlyLive(p) => connectionState = CONNECTED /\ dynamoPort = p

C2_Witness == OnlyLive(defaultPort + 1)

\* C3: a round with two or more Live probes leaves the state
\* MULTIPLE_CONNECTIONS and no port set.
C3_TwoLiveIsMultiple ==
  (RoundCompleted /\ Cardinality({p \in portsToCheck : event.out[p] = Live}) >= 2)
    => connectionState = MULTIPLE_CONNECTIONS /\ dynamoPort = Undefined

\* C4: a round with no Live probe and at least one probe Rejected(503)
\* leaves the state BLOCKED.
C4_Rejected503Blocks ==
  (NoneLive /\ \E p \in portsToCheck : event.out[p] = Rejected503)
    => connectionState = BLOCKED

C4_Witness ==
  /\ NoneLive
  /\ event.out[defaultPort] = Unreachable
  /\ event.out[defaultPort + 1] = Rejected503

\* C5: a round with no Live and no Rejected probe leaves the state
\* NOT_CONNECTED.
C5_AllUnreachableNotConnected ==
  (RoundCompleted /\ \A p \in portsToCheck : event.out[p] = Unreachable)
    => connectionState = NOT_CONNECTED

C5_Witness ==
  /\ RoundCompleted
  /\ \A p \in portsToCheck : event.out[p] = Unreachable
  /\ dynamoPort = Undefined

\* C6: a connectivity failure of any queued operation sets the state to
\* LOST_CONNECTION and reaches the caller as a rejection.
C6_ConnectivityFailureDemotes ==
  (OpSettled /\ event.response \in ConnectivityFailures)
    => connectionState = LOST_CONNECTION /\ event.outcome = "rejected"

C8_NotTrustedKeepsState ==
  [][ (OpSettled' /\ event'.op \in {"info", "current"}
         /\ event'.response = NotTrusted)
        => connectionState' = connectionState /\ event'.outcome = "rejected" ]_vars

C8_Witness ==
  /\ OpSettled
  /\ event.op = "current"
  /\ event.response = NotTrusted
  /\ connectionState = CONNECTED

\* C9 as claimed: an application-level failure of folder, info, run or
\* trust reaches the caller and leaves the connection state as it was.
C9_ApplicationFailureKeepsState ==
  [][ (OpSettled' /\ event'.op \in {"folder", "info", "run", "trust"}
         /\ event'.response \in ApplicationFailures)
        => connectionState' = connectionState /\ event'.outcome = "rejected" ]_vars

\* C9 as amended: every failure of folder, info, run or trust reaches the
\* caller; the "Graph is not trusted." failure of info leaves the connection
\* state as it was, and every other failure of these operations, the
\* application-level ones included, sets it to LOST_CONNECTION.
C9_OnlyNotTrustedInfoKeepsState ==
  [][ (OpSettled' /\ event'.op \in {"folder", "info", "run", "trust"}
         /\ event'.response \in Errors)
        => /\ event'.outcome = "rejected"
           /\ IF event'.op = "info" /\ event'.response = NotTrusted
              THEN connectionState' = connectionState
              ELSE connectionState' = LOST_CONNECTION ]_vars

C9_Witness ==
  /\ OpSettled
  /\ event.op = "folder"
  /\ event.response = NotFound
  /\ connectionState = LOST_CONNECTION
  /\ dynamoPort # Undefined

\* C10: whenever the state is not CONNECTED, no port is set.
C10_PortOnlyWhileConnected ==
  connectionState # CONNECTED => dynamoPort = Undefined

\* The handler that ran last started a discovery round on trigger t.
RoundStarted(t) == event.type = "start" /\ event.trigger = t

\* C11: the timer starts discovery rounds exactly while the state is
\* NOT_CONNECTED, MULTIPLE_CONNECTIONS, BLOCKED or LOST_CONNECTION: in these
\* states it can fire whenever no handler is running (again and again,
\* until a round yields CONNECTED), and in CONNECTED and INIT it cannot; a
\* round it started found such a state.
C11_TimerExactlyWhilePolling ==
  LET polled == connectionState \in
                  {NOT_CONNECTED, MULTIPLE_CONNECTIONS, BLOCKED, LOST_CONNECTION}
  IN /\ RoundStarted("timer") => polled
     /\ (Idle /\ rounds < MaxRounds) => ((ENABLED TimerFires) <=> polled)

C11_Witness == RoundStarted("timer") /\ connectionState = BLOCKED

\* C14: reconnect() can start a round in every state, the round starts in
\* the same step (the port is cleared, the probes are pending, the state is
\* kept), and a round's outcome sets the state by the rules of every round.
C14_ReconnectStartsRound ==
  [][ /\ (Idle /\ rounds < MaxRounds) => ENABLED Reconnect
      /\ RoundStarted("reconnect")' =>
           /\ rounds' = rounds + 1
           /\ dynamoPort' = Undefined
           /\ connectionState' = connectionState
      /\ RoundCompleted' =>
           connectionState' =
             IF \E p \in portsToCheck : event'.out[p] = Live THEN CONNECTED
             ELSE IF \E p \in portsToCheck : event'.out[p] = Rejected503
                  THEN BLOCKED
                  ELSE NOT_CONNECTED ]_vars

C14_Witness == RoundStarted("reconnect") /\ connectionState = CONNECTED

\* C16: starting a round clears the port and keeps the connection state;
\* the state changes only when a round completes or an operation settles.
C16_StartClearsPortKeepsState ==
  [][ /\ (event'.type = "start") =>
           dynamoPort' = Undefined /\ connectionState' = connectionState
      /\ connectionState' # connectionState => event'.type \in {"round", "op"} ]_vars

C16_Witness ==
  /\ event.type = "start"
  /\ connectionState = CONNECTED
  /\ dynamoPort = Undefined
  /\ rounds = 1

\* C12: a task that fails does not block its queue: the tasks enqueued
\* behind it are all still there once it has settled, and the first of them
\* is in flight.
C12_FailureDoesNotBlockQueue ==
  (OpSettled /\ event.outcome = "rejected" /\ event.behind > 0)
    => event.q \in InFlight /\ queues[event.q].size = event.behind

C12_Witness ==
  /\ OpSettled
  /\ event.outcome = "rejected"
  /\ event.behind > 0
  /\ event.q \in InFlight

\* C19: an operation that begins executing while the state is CONNECTED is
\* sent to the port that is current when it begins: the operation enqueued
\* on an empty queue begins at once, and the one behind a settled operation
\* begins when that one settles.
C19_SentToCurrentPort ==
  connectionState = CONNECTED =>
    /\ (event.type = "submit" /\ CurrentQueue.size = 1)
         => CurrentQueue.port = dynamoPort
    /\ (OpSettled /\ event.behind > 0) => queues[event.q].port = dynamoPort

\* C15: no probe failure escapes a round: whatever the probes' outcomes, a
\* pending round can complete, it raises nothing to its caller, and what it
\* found is the connection state it sets.
C15_RoundNeverRaises ==
  /\ RoundCompleted =>
       /\ ~event.raised
       /\ connectionState \in {CONNECTED, BLOCKED, NOT_CONNECTED}
  /\ (Idle /\ rounds > 0) =>
       \A out \in RoundOutcomes :
         ENABLED (\E first \in portsToCheck \cup {Undefined},
                     settled \in SUBSET portsToCheck :
                    CompleteDiscovery(1, out, first, settled))

C15_Witness ==
  /\ RoundCompleted
  /\ \A p \in portsToCheck : event.out[p] = Rejected503
  /\ connectionState = BLOCKED

\* C17: a round sets the state and the port only once all of its probes
\* have settled.
C17_AllProbesSettled ==
  RoundCompleted => event.settled = portsToCheck

\* C18: a round that started before a round that has completed already
\* does not overwrite that round's outcome; the state leaves CONNECTED only
\* by error feedback or by a round that no later round has overtaken.
C18_EarlierRoundNeverOverwrites ==
  [][ /\ (RoundCompleted' /\ event'.stale) =>
           connectionState' = connectionState /\ dynamoPort' = dynamoPort
      /\ (connectionState = CONNECTED /\ connectionState' # CONNECTED) =>
           ErrorFeedback' \/ (RoundCompleted' /\ ~event'.stale) ]_vars

\* C13: after a loss, with one port live and staying live, fair scheduling
\* of the timer and of the probes' completion brings the state back to
\* CONNECTED with that port, whenever the state is not CONNECTED.
C13_EventuallyReconnected ==
  [](connectionState # CONNECTED
       => <>(connectionState = CONNECTED /\ dynamoPort = RecoveredPort))

C13_Witness ==
  /\ RoundCompleted
  /\ event.out \in RecoveredOutcomes
  /\ connectionState = CONNECTED
  /\ dynamoPort = RecoveredPort
  /\ rounds = 0

====
